---- MODULE Spec2Model ----
(***************************************************************************)
(* ReceiptService of tiki-receipt-capacitor as a state machine.            *)
(*                                                                         *)
(* Two revisions of the class are in the repository:                       *)
(*   rev = 2  src/src/service/receipt/receipt-service.ts  (threshold 0.9)  *)
(*   rev = 1  src/unnamed/part_000                        (threshold 0.8)  *)
(* The revision is fixed in Init.  Every public operation is an async      *)
(* function: it is modelled as a task that runs synchronously from one     *)
(* await to the next; each action below is one such synchronous run.  The  *)
(* capture plugin and the ledger sdk are the environment: their answers    *)
(* are chosen with \E where the awaited call resolves.                     *)
(* The host calls the public operations one after the other, as the        *)
(* service requires; work nobody awaits (the receipts of an online scan,   *)
(* the scrape callbacks) goes on in between.  What a task did is kept in   *)
(* its trace, in the order in which it did it.                             *)
(* Confidences are in hundredths (0.9 is 90).  Timestamps are left out.    *)
(***************************************************************************)
EXTENDS Integers, Sequences, FiniteSets, TLC

(* ------------------------------ bounds -------------------------------- *)
MaxOps == 2          \* public operations and scrape callbacks in one run
MaxPersisted == 2    \* accounts the capture plugin has persisted
MaxRegs == 3         \* listener registrations of a host that registers before it calls

(* ------------------------------ values -------------------------------- *)
Undefined == -1      \* the absent amount of a reward rule

Events == {"LINK", "UNLINK", "SCAN"}
ListenerIds == {"l1", "l2"}
Callbacks == {"ok", "throw"}

NoAccount == [username |-> "", type |-> "", isVerified |-> FALSE]
NoReceipt == [id |-> "", ocrConfidence |-> 0, duplicate |-> FALSE, fraudulent |-> FALSE]

\* accounts as the caller hands them to login / logout
CallerAccounts ==
  { [username |-> "u1", type |-> "EMAIL", isVerified |-> FALSE],
    [username |-> "u2", type |-> "EMAIL", isVerified |-> FALSE] }

\* accounts of logins that are under way at the same time
LoginAccounts ==
  CallerAccounts \cup {[username |-> "u3", type |-> "RETAILER", isVerified |-> FALSE]}

\* accounts as the capture plugin returns them
NoCapture == [username |-> "", source |-> "", isVerified |-> FALSE]
CaptureAccounts ==
  { [username |-> "u1", source |-> "GMAIL", isVerified |-> TRUE],
    [username |-> "u1", source |-> "AMAZON", isVerified |-> TRUE] }

\* the account of the online scans and of the scrape callbacks
ScanAccount == [username |-> "u1", type |-> "EMAIL", isVerified |-> FALSE]
ScrapedAccount == [username |-> "u1", source |-> "GMAIL", isVerified |-> TRUE]

\* receipts the capture plugin may produce
Receipts ==
  { [id |-> "r80", ocrConfidence |-> 80, duplicate |-> FALSE, fraudulent |-> FALSE],
    [id |-> "r90", ocrConfidence |-> 90, duplicate |-> FALSE, fraudulent |-> FALSE],
    [id |-> "r100", ocrConfidence |-> 100, duplicate |-> FALSE, fraudulent |-> FALSE],
    [id |-> "rDup", ocrConfidence |-> 100, duplicate |-> TRUE, fraudulent |-> FALSE],
    [id |-> "rFraud", ocrConfidence |-> 100, duplicate |-> FALSE, fraudulent |-> TRUE] }

\* the receipts one scrape callback may carry
ScrapeBatches ==
  LET r(id) == CHOOSE x \in Receipts : x.id = id
  IN { << r("r100") >>, << r("rDup") >>, << r("rFraud") >>,
       << r("rDup"), r("r100") >>, << r("r100"), r("rFraud") >> }

\* a reward rule: what its issuer returns for each event
Rule(link, unlink, scan) == [LINK |-> link, UNLINK |-> unlink, SCAN |-> scan]

RulesAB == << Rule(1, Undefined, Undefined), Rule(Undefined, Undefined, 2) >>
RulesFan == << Rule(1, 1, 1), Rule(Undefined, 3, Undefined), Rule(2, 2, 2) >>
RuleSets == {RulesAB, RulesFan}

SeqsUpTo(S, n) == UNION {[1..k -> S] : k \in 0..n}

(* ------------------------------- state -------------------------------- *)
VARIABLES
  rev,                 \* which revision of ReceiptService runs
  rewards,             \* tiki.config.rewards
  accounts,            \* _accounts
  onAccountListeners,  \* _onAccountListeners, in insertion order
  onReceiptListeners,  \* _onReceiptListeners, in insertion order
  history,             \* tiki.history
  scrapeSubs,          \* scrapeEmail calls made
  scraped,             \* scrape callbacks delivered
  regs,                \* registrations made
  tasks,               \* the async calls: position and locals
  trace,               \* per task: the calls it made and the effects it had, in order
  tiki,                \* the fields of TikiService
  ledger,              \* the payables the licensing sdk holds, with their receipts
  refs                 \* which objects the cache holds and what the caller holds of it

vars == << rev, rewards, accounts, onAccountListeners, onReceiptListeners, history,
           scrapeSubs, scraped, regs, tasks, trace, tiki, ledger, refs >>

\* the mutable part of the state as one value; the handlers below are functions on it
Cur ==
  [ accounts |-> accounts, onAccountListeners |-> onAccountListeners,
    onReceiptListeners |-> onReceiptListeners, history |-> history,
    scrapeSubs |-> scrapeSubs, scraped |-> scraped, regs |-> regs,
    tasks |-> tasks, trace |-> trace, tiki |-> tiki, ledger |-> ledger,
    refs |-> refs, threw |-> FALSE ]

Commit(S) ==
  /\ accounts' = S.accounts
  /\ onAccountListeners' = S.onAccountListeners
  /\ onReceiptListeners' = S.onReceiptListeners
  /\ history' = S.history
  /\ scrapeSubs' = S.scrapeSubs
  /\ scraped' = S.scraped
  /\ regs' = S.regs
  /\ tasks' = S.tasks
  /\ trace' = S.trace
  /\ tiki' = S.tiki
  /\ ledger' = S.ledger
  /\ refs' = S.refs
  /\ UNCHANGED << rev, rewards >>

Init ==
  /\ rev \in {1, 2}
  /\ rewards \in RuleSets
  /\ accounts = << >>
  /\ onAccountListeners = << >>
  /\ onReceiptListeners = << >>
  /\ history = << >>
  /\ scrapeSubs = 0
  /\ scraped = 0
  /\ regs = 0
  /\ tasks = << >>
  /\ trace = << >>
  /\ tiki = [id |-> FALSE, license |-> "undefined", isInitialized |-> FALSE, total |-> 0,
             onTotalChanged |-> "undefined"]
  /\ ledger = << >>
  /\ refs = [own |-> << >>, got |-> FALSE, same |-> FALSE, val |-> << >>, vown |-> << >>]

(* ------------------------------ helpers ------------------------------- *)
\* ReceiptAccount.fromValue / fromCapture: the plugin's account as a ReceiptAccount;
\* an absent account stays absent
fromValue(a) ==
  IF a = NoCapture THEN NoAccount
  ELSE [username |-> a.username,
        type |-> (IF a.source = "GMAIL" THEN "EMAIL" ELSE "RETAILER"),
        isVerified |-> a.isVerified]

NewTask(op, pc, acct, parent) ==
  [op |-> op, pc |-> pc, acct |-> acct, rcpt |-> NoReceipt, event |-> "",
   idx |-> 0, parent |-> parent, err |-> "", warn |-> "", snap |-> 0]

Spawn(S, task) == [S EXCEPT !.tasks = Append(@, task), !.trace = Append(@, << >>)]
Finish(S, t) == [S EXCEPT !.tasks[t].pc = "done"]
Reject(S, t, err) == [S EXCEPT !.tasks[t].pc = "rejected", !.tasks[t].err = err]

\* one entry of a trace
Ev(kind, name, rule, amount, account, receipt) ==
  [kind |-> kind, name |-> name, rule |-> rule, amount |-> amount,
   account |-> account, receipt |-> receipt]

PluginCall(fn, account) == Ev("plugin", fn, 0, 0, account, NoReceipt)

\* what an awaited call of the plugin or of the sdk answered
Answer(name) == Ev("answer", name, 0, 0, NoAccount, NoReceipt)

Log(S, t, e) == [S EXCEPT !.trace[t] = Append(@, e)]

\* the state in which task t takes up again with the answer it awaited
Resumed(t, ok) == Log(Cur, t, Answer(IF ok THEN "ok" ELSE "reject"))

\* mutant: a key that is set again moves to the end
MapSetLast(m, id, cb) ==
  Append(SelectSeq(m, LAMBDA e : e.id # id), [id |-> id, cb |-> cb])

\* Map.set: a new key goes last, a known key keeps its place and takes the new value
MapSet(m, id, cb) ==
  IF \E i \in 1..Len(m) : m[i].id = id
  THEN [i \in 1..Len(m) |-> IF m[i].id = id THEN [id |-> id, cb |-> cb] ELSE m[i]]
  ELSE Append(m, [id |-> id, cb |-> cb])

\* Map.forEach(listener => listener(..)): the listeners that get called, in order; a
\* listener that throws ends the iteration
FirstThrow(m) ==
  IF \E i \in 1..Len(m) : m[i].cb = "throw"
  THEN CHOOSE i \in 1..Len(m) : m[i].cb = "throw" /\ \A j \in 1..(i - 1) : m[j].cb # "throw"
  ELSE 0

Invoked(m) == IF FirstThrow(m) = 0 THEN m ELSE SubSeq(m, 1, FirstThrow(m))

(* --------------------------- process (loop) --------------------------- *)
\* reward.issuer(event, details)
issuer(reward, event) == reward[event]

\* mutant: the amount is not tested, an absent amount is paid too
FiresAlways(amount) == TRUE

\* amount != undefined
Fires(amount) == amount # Undefined

\* HistoryEvent.new(amount, new Date(), event, provider); its name is the event's
HistoryEventNew(amount, event, provider) ==
  [amount |-> amount, event |-> event, name |-> event, provider |-> provider]

\* the provider handed to HistoryEvent.new: details.account?.accountType.type
Provider(task) == task.acct.type

\* the rule the loop goes on with after rule i returned no amount
LoopNext(i) == i + 1

\* mutant: first match, the loop ends with the first rule that pays
AfterFiringBreak(i) == Len(rewards) + 1

\* the rule the loop goes on with after rule i paid
AfterFiring(i) == i + 1

\* the for loop from rule i on, up to the first await (a createPayable call) or the end
RECURSIVE processLoop(_, _, _)
processLoop(S, t, i) ==
  IF i > Len(rewards) THEN [S EXCEPT !.tasks[t].pc = "proc_end", !.tasks[t].idx = i]
  ELSE LET task == S.tasks[t]
           amount == issuer(rewards[i], task.event)
           S1 == Log(S, t, Ev("eval", task.event, i, amount, task.acct, task.rcpt))
       IN IF Fires(amount)
          THEN [Log(S1, t, Ev("createPayable",
                              HistoryEventNew(amount, task.event, Provider(task)).name,
                              i, amount, task.acct, task.rcpt))
                  EXCEPT !.tasks[t].pc = "payable", !.tasks[t].idx = i]
          ELSE processLoop(S1, t, LoopNext(i))

\* process(event, details) from its call to its first await
process(S, t, event) ==
  LET S1 == Log([S EXCEPT !.tasks[t].event = event], t,
                Ev("process", event, 0, 0, S.tasks[t].acct, S.tasks[t].rcpt))
  IN processLoop(S1, t, 1)

(* ------------------------- receipts and scans ------------------------- *)
\* ReceiptService.OCR_THRESHOLD of each revision, in hundredths
OCR_THRESHOLD_REV2 == 90
OCR_THRESHOLD_REV1 == 80
OCR_THRESHOLD == IF rev = 2 THEN OCR_THRESHOLD_REV2 ELSE OCR_THRESHOLD_REV1

\* mutant: >= for >
ConfidentOrEqual(receipt) == receipt.ocrConfidence >= OCR_THRESHOLD

\* receipt.ocrConfidence > ReceiptService.OCR_THRESHOLD
Confident(receipt) == receipt.ocrConfidence > OCR_THRESHOLD

\* mutant: the fraud flag is not looked at
AdmittedDuplicateOnly(receipt) == ~receipt.duplicate

\* !receipt.duplicate && !receipt.fraudulent
Admitted(receipt) == ~receipt.duplicate /\ ~receipt.fraudulent

\* mutant: the license is not tested
HasLicenseAlways(license) == TRUE

\* license != undefined
HasLicense(license) == license # "undefined"

\* the calls of one forEach over a listener map, as trace entries
Calls(kind, called, account, receipt) ==
  [i \in 1..Len(called) |-> Ev(kind, called[i].id, 0, 0, account, receipt)]

\* _onReceiptListeners.forEach(listener => listener(receipt, account))
notifyReceipt(S, t) ==
  LET task == S.tasks[t]
  IN [S EXCEPT
        !.trace[t] = @ \o Calls("onReceipt", Invoked(S.onReceiptListeners),
                                task.acct, task.rcpt),
        !.threw = FirstThrow(S.onReceiptListeners) # 0]

\* mutant: the receipt listeners are called first, the receipt is processed after
addReceiptNotifyFirst(S, t, receipt, account) ==
  LET S1 == Log([S EXCEPT !.tasks[t].rcpt = receipt, !.tasks[t].acct = fromValue(account)],
                t, Ev("addReceipt", "", 0, 0, fromValue(account), receipt))
  IN IF Admitted(receipt)
     THEN process([notifyReceipt(S1, t) EXCEPT !.threw = FALSE], t, "SCAN")
     ELSE Finish([S1 EXCEPT !.tasks[t].warn = "flags"], t)

\* addReceipt(receipt, account?) from its call to its first await
addReceipt(S, t, receipt, account) ==
  LET S1 == Log([S EXCEPT !.tasks[t].rcpt = receipt, !.tasks[t].acct = fromValue(account)],
                t, Ev("addReceipt", "", 0, 0, fromValue(account), receipt))
  IN IF Admitted(receipt)
     THEN IF rev = 2
          THEN [Log(S1, t, Ev("ingest", "", 0, 0, NoAccount, receipt))
                  EXCEPT !.tasks[t].pc = "ingest"]
          ELSE process(S1, t, "SCAN")
     ELSE Finish([S1 EXCEPT !.tasks[t].warn = "flags"], t)

\* a call of addReceipt that nobody awaits
addReceiptDetached(S, parent, receipt, account) ==
  LET S1 == Spawn(S, NewTask("addReceipt", "start", NoAccount, parent))
  IN addReceipt(S1, Len(S1.tasks), receipt, account)

\* which branch of scan a scanType takes: 'PHYSICAL', a falsy one, or neither
ScanBranch(scanType) ==
  IF scanType = "PHYSICAL" THEN "physical"
  ELSE IF scanType = "" THEN "online"
  ELSE "none"

\* scan(scanType, account) from its call to its first await, as a new task
scan(S, scanType, account, parent) ==
  LET t == Len(S.tasks) + 1
      branch == IF rev = 2 THEN ScanBranch(scanType) ELSE "physical"
      S1 == Spawn(S, NewTask("scan", "start", account, parent))
  IN IF branch = "physical"
     THEN [Log(S1, t, Ev("getLicense", "", 0, 0, NoAccount, NoReceipt))
             EXCEPT !.tasks[t].pc = "scan_license"]
     ELSE IF branch = "online"
     THEN [Log(S1, t, PluginCall("scan:ONLINE", account))
             EXCEPT !.tasks[t].pc = "online_plugin"]
     ELSE Finish(S1, t)

\* scrape(): plugin.scrapeEmail(callback)
scrape(S, t) ==
  [Log(S, t, PluginCall("scrapeEmail", NoAccount)) EXCEPT !.scrapeSubs = @ + 1]

(* ------------------------------ accounts ------------------------------ *)
\* _onAccountListeners.forEach(listener => listener(account))
notifyAccount(S, t, account) ==
  [S EXCEPT
     !.trace[t] = @ \o Calls("onAccount", Invoked(S.onAccountListeners), account, NoReceipt),
     !.threw = FirstThrow(S.onAccountListeners) # 0]

\* whose object an account handed to addAccount by call t is: login hands on the
\* object of its caller (named by the call), accounts() / load() a new one (0)
ObjectOf(S, t) == IF S.tasks[t].op = "login" THEN t ELSE 0

\* _accounts.push(account): the array _accounts refers to grows in place, and with
\* it what the caller got from cachedAccounts while that still is this array
push(S, t, account) ==
  LET r == S.refs
  IN [S EXCEPT
        !.accounts = Append(@, account),
        !.refs = [r EXCEPT !.own = Append(@, ObjectOf(S, t)),
                           !.val = IF r.same THEN Append(@, account) ELSE @,
                           !.vown = IF r.same THEN Append(@, ObjectOf(S, t)) ELSE @]]

\* _accounts = list: _accounts refers to a new array; the old one is left as it is
assign(S, list, own) ==
  [S EXCEPT !.accounts = list, !.refs = [S.refs EXCEPT !.own = own, !.same = FALSE]]

\* mutant: the cache is assigned anew, not pushed to
addAccountOverwriting(S, t, account) ==
  LET S1 == Log(assign(S, << account >>, << ObjectOf(S, t) >>), t,
                Ev("push", "", 0, 0, account, NoReceipt))
      S2 == notifyAccount(S1, t, account)
  IN IF S2.threw THEN S2
     ELSE IF rev = 2 THEN scan(S2, "ONLINE", account, t)
     ELSE scrape(S2, t)

\* addAccount(account)
addAccount(S, t, account) ==
  LET S1 == Log(push(S, t, account), t,
                Ev("push", "", 0, 0, account, NoReceipt))
      S2 == notifyAccount(S1, t, account)
  IN IF S2.threw THEN S2
     ELSE IF rev = 2 THEN scan(S2, "ONLINE", account, t)
     ELSE scrape(S2, t)

\* mutant: the filtered list is not the cache afterwards, every entry stays
KeepsAll(acc, account) == TRUE

\* the filter of removeAccount: whether acc stays in the cache
Keeps(acc, account) == acc.username # account.username /\ acc.type # account.type

\* the objects of the entries the filter of removeAccount keeps
RECURSIVE KeptObjects(_, _, _)
KeptObjects(list, own, account) ==
  IF list = << >> \/ own = << >> THEN << >>
  ELSE (IF Keeps(Head(list), account) THEN << Head(own) >> ELSE << >>)
       \o KeptObjects(Tail(list), Tail(own), account)

\* removeAccount(account)
removeAccount(S, t, account) ==
  LET S1 == Log(assign(S, SelectSeq(S.accounts, LAMBDA acc : Keeps(acc, account)),
                       KeptObjects(S.accounts, S.refs.own, account)), t,
                Ev("filter", "", 0, 0, account, NoReceipt))
  IN notifyAccount(S1, t, account)

\* mutant: logout() leaves the cache as it is
KeptAccounts == accounts

\* the cache after logout() with no account
ClearedAccounts == << >>

\* the forEach of accounts() / load(): one persisted account after the other
RECURSIVE forEachAccount(_, _, _)
forEachAccount(S, t, list) ==
  IF list = << >> \/ S.threw THEN S
  ELSE LET S1 == addAccount(S, t, fromValue(Head(list)))
           S2 == IF rev = 2 /\ ~S1.threw
                 THEN scan(S1, "ONLINE", fromValue(Head(list)), t)
                 ELSE S1
       IN forEachAccount(S2, t, Tail(list))

\* the forEach of the scrape callback: one detached addReceipt per receipt
RECURSIVE forEachReceipt(_, _, _)
forEachReceipt(S, list, account) ==
  IF list = << >> THEN S
  ELSE forEachReceipt(addReceiptDetached(S, 0, Head(list), account), Tail(list), account)

(* ------------------------------ actions ------------------------------- *)
Tasks == 1..Len(tasks)

\* the public operations called and the scrape callbacks delivered so far
Started ==
  regs + scraped + Cardinality({t \in Tasks : tasks[t].parent = 0 /\ tasks[t].op # "addReceipt"})

Settled(t) == tasks[t].pc \in {"done", "rejected"}

\* the host calls the public operations one after the other, each awaited (the
\* service is not made for concurrent calls); detached work goes on in between
Idle == \A t \in Tasks : tasks[t].parent = 0 /\ tasks[t].op # "addReceipt" => Settled(t)

\* no operation has been called yet: the host is still setting up its listeners
Setup == Len(tasks) = 0 /\ scraped = 0

\* the runs explored: MaxOps calls of any kind, or a setup of up to MaxRegs
\* registrations and one operation after it
CanStart == Idle /\ (Started < MaxOps \/ Setup)

CanRegister == Idle /\ (Started < MaxOps \/ (Setup /\ regs < MaxRegs))

\* onAccount(id, listener)
onAccount(id, cb) ==
  /\ CanRegister
  /\ Commit([Cur EXCEPT !.onAccountListeners = MapSet(@, id, cb), !.regs = @ + 1])

\* onReceipt(id, listener)
onReceipt(id, cb) ==
  /\ CanRegister
  /\ Commit([Cur EXCEPT !.onReceiptListeners = MapSet(@, id, cb), !.regs = @ + 1])

\* login(account), up to the await of plugin.login
login(account) ==
  /\ CanStart
  /\ Commit(Log(Spawn(Cur, NewTask("login", "login_plugin", account, 0)),
                Len(tasks) + 1, PluginCall("login", account)))

\* login(account) called while other logins, of other accounts, are under way
loginConcurrently(account) ==
  /\ Cardinality({t \in Tasks : tasks[t].op = "login"}) < MaxOps
  /\ \A t \in Tasks : tasks[t].op = "login" => tasks[t].acct.username # account.username
  /\ Commit(Log(Spawn(Cur, NewTask("login", "login_plugin", account, 0)),
                Len(tasks) + 1, PluginCall("login", account)))

\* login(account), from the answer of plugin.login on
loginResume(t, ok) ==
  /\ tasks[t].pc = "login_plugin"
  /\ IF ok
     THEN LET account == IF rev = 2 THEN [tasks[t].acct EXCEPT !.isVerified = TRUE]
                         ELSE tasks[t].acct
              S1 == addAccount([Resumed(t, ok) EXCEPT !.tasks[t].acct = account], t, account)
          IN Commit(IF S1.threw THEN Reject(S1, t, "listener") ELSE process(S1, t, "LINK"))
     ELSE Commit(Reject(Resumed(t, ok), t, "plugin"))

\* logout(account) and, in revision 2, logout(), up to the await of plugin.logout
logout(account) ==
  /\ CanStart
  /\ account = NoAccount => rev = 2
  /\ LET all == account = NoAccount
     IN Commit(Log(Spawn(Cur, NewTask("logout",
                                      IF all THEN "logoutAll_plugin" ELSE "logout_plugin",
                                      account, 0)),
                   Len(tasks) + 1,
                   PluginCall(IF all THEN "logoutAll" ELSE "logout", account)))

\* mutant: the cache is cleared whatever plugin.logout() answers
logoutAllResumeFinally(t, ok) ==
  /\ tasks[t].pc = "logoutAll_plugin"
  /\ LET S1 == assign(Resumed(t, ok), ClearedAccounts, << >>)
     IN IF ok THEN Commit(Finish(S1, t)) ELSE Commit(Reject(S1, t, "plugin"))

\* logout(), from the answer of plugin.logout() on
logoutAllResume(t, ok) ==
  /\ tasks[t].pc = "logoutAll_plugin"
  /\ IF ok
     THEN Commit(Finish(assign(Resumed(t, ok), ClearedAccounts, << >>), t))
     ELSE Commit(Reject(Resumed(t, ok), t, "plugin"))

\* logout(account), from the answer of plugin.logout on
logoutResume(t, ok) ==
  /\ tasks[t].pc = "logout_plugin"
  /\ IF ok
     THEN LET S1 == removeAccount(Resumed(t, ok), t, tasks[t].acct)
          IN Commit(IF S1.threw THEN Reject(S1, t, "listener") ELSE process(S1, t, "UNLINK"))
     ELSE Commit(Reject(Resumed(t, ok), t, "plugin"))

\* accounts() (revision 1: load()), up to the await of plugin.accounts
listAccounts ==
  /\ CanStart
  /\ Commit(Log(Spawn(Cur, NewTask("accounts", "accounts_plugin", NoAccount, 0)),
                Len(tasks) + 1, PluginCall("accounts", NoAccount)))

\* accounts(), from the answer of plugin.accounts on; revision 2 wraps what is thrown
listAccountsResume(t, ok, list) ==
  /\ tasks[t].pc = "accounts_plugin"
  /\ IF ok
     THEN LET S1 == forEachAccount(Resumed(t, ok), t, list)
          IN Commit(IF S1.threw
                    THEN Reject(S1, t, IF rev = 2 THEN "load" ELSE "listener")
                    ELSE Finish(S1, t))
     ELSE /\ list = << >>
          /\ Commit(Reject(Resumed(t, ok), t, IF rev = 2 THEN "load" ELSE "plugin"))

\* scan(scanType, account) called by the host (revision 1: scan())
scanCall(scanType, account) ==
  /\ CanStart
  /\ rev = 1 => scanType = "PHYSICAL"
  /\ scanType = "PHYSICAL" <=> account = NoAccount
  /\ Commit(scan(Cur, scanType, account, 0))

\* scan, from the answer of tiki.sdk.getLicense on
licenseResume(t, license) ==
  /\ tasks[t].pc = "scan_license"
  /\ IF HasLicense(license)
     THEN Commit([Log(Log(Cur, t, Answer(license)), t, PluginCall("scan:PHYSICAL", NoAccount))
                    EXCEPT !.tasks[t].pc = "scan_plugin"])
     ELSE Commit(Reject(Log(Cur, t, Answer(license)), t, "NoLicense"))

\* the physical scan, from the answer of plugin.scan on
scanResume(t, ok, receipt) ==
  /\ tasks[t].pc = "scan_plugin"
  /\ ok => receipt # NoReceipt
  /\ IF ok
     THEN IF Confident(receipt)
          THEN Commit(addReceipt(Resumed(t, ok), t, receipt, NoCapture))
          ELSE Commit(Finish([Resumed(t, ok) EXCEPT !.tasks[t].rcpt = receipt,
                                                    !.tasks[t].warn = "confidence"], t))
     ELSE /\ receipt = NoReceipt
          /\ Commit(Reject(Resumed(t, ok), t, "plugin"))

\* mutant: the online scan awaits addReceipt, as the physical scan does
onlineResumeAwaited(t, ok, receipt) ==
  /\ tasks[t].pc = "online_plugin"
  /\ ok => receipt # NoReceipt
  /\ IF ok
     THEN Commit(addReceipt(Resumed(t, ok), t, receipt, NoCapture))
     ELSE /\ receipt = NoReceipt
          /\ Commit(Reject(Resumed(t, ok), t, "plugin"))

\* the online scan, from the answer of plugin.scan('ONLINE', account) on
onlineResume(t, ok, receipt) ==
  /\ tasks[t].pc = "online_plugin"
  /\ ok => receipt # NoReceipt
  /\ IF ok
     THEN Commit(Finish(addReceiptDetached(Resumed(t, ok), t, receipt, NoCapture), t))
     ELSE /\ receipt = NoReceipt
          /\ Commit(Reject(Resumed(t, ok), t, "plugin"))

\* the callback handed to plugin.scrapeEmail (revision 1)
scrapeCallback(account, list) ==
  /\ scrapeSubs > 0
  /\ Started < MaxOps
  /\ Commit(forEachReceipt([Cur EXCEPT !.scraped = @ + 1], list, account))

\* addReceipt, from the answer of tiki.sdk.ingest on
ingestResume(t, ok) ==
  /\ tasks[t].pc = "ingest"
  /\ IF ok
     THEN Commit(process(Resumed(t, ok), t, "SCAN"))
     ELSE Commit(Reject(Resumed(t, ok), t, "ingest"))

\* mutant: a failed createPayable is caught and the loop goes on with the next rule
payableResumeCaught(t, ok) ==
  /\ tasks[t].pc = "payable"
  /\ LET task == tasks[t]
         amount == issuer(rewards[task.idx], task.event)
         historyEvent == HistoryEventNew(amount, task.event, Provider(task))
         S1 == Log(Log([Cur EXCEPT !.history = Append(@, historyEvent)], t,
                       Ev("payable", historyEvent.name, task.idx, amount,
                          task.acct, task.rcpt)),
                   t, Ev("history", task.event, task.idx, amount, task.acct, task.rcpt))
     IN Commit(processLoop(IF ok THEN S1 ELSE Resumed(t, ok), t, AfterFiring(task.idx)))

\* process, from the answer of tiki.sdk.createPayable on
payableResume(t, ok) ==
  /\ tasks[t].pc = "payable"
  /\ IF ok
     THEN LET task == tasks[t]
              amount == issuer(rewards[task.idx], task.event)
              historyEvent == HistoryEventNew(amount, task.event, Provider(task))
              S1 == Log(Log([Cur EXCEPT !.history = Append(@, historyEvent)], t,
                            Ev("payable", historyEvent.name, task.idx, amount,
                               task.acct, task.rcpt)),
                        t, Ev("history", task.event, task.idx, amount, task.acct, task.rcpt))
          IN Commit(processLoop(S1, t, AfterFiring(task.idx)))
     ELSE Commit(Reject(Resumed(t, ok), t, "payable"))

\* what follows the await of process: nothing in login and logout, the receipt
\* listeners in addReceipt
processEnd(t) ==
  /\ tasks[t].pc = "proc_end"
  /\ IF tasks[t].op \in {"login", "logout"}
     THEN Commit(Finish(Cur, t))
     ELSE LET S1 == notifyReceipt(Cur, t)
          IN Commit(IF S1.threw THEN Reject(S1, t, "listener") ELSE Finish(S1, t))

(* ---------------------------- TikiService ----------------------------- *)
\* TikiService of src/src/tiki-service.ts: it scans by itself, pays a fixed amount for
\* a scanned receipt and keeps the total of what the ledger holds
TIKI_THRESHOLD == 50   \* receipt.ocrConfidence >= 0.5, in hundredths
TIKI_AMOUNT == 1       \* the amount "1" of the payable of a scan

\* receipts capture.scan() may produce for TikiService
TikiReceipts ==
  { [id |-> "r40", ocrConfidence |-> 40, duplicate |-> FALSE, fraudulent |-> FALSE],
    [id |-> "r50", ocrConfidence |-> 50, duplicate |-> FALSE, fraudulent |-> FALSE],
    [id |-> "rDup", ocrConfidence |-> 100, duplicate |-> TRUE, fraudulent |-> FALSE],
    [id |-> "rFraud", ocrConfidence |-> 100, duplicate |-> FALSE, fraudulent |-> TRUE] }

\* a PayableRecord with the amounts of its ReceiptRecords
Payable(type, amount, receipts) == [type |-> type, amount |-> amount, receipts |-> receipts]

\* what the ledger may hold before this session
LedgerContents ==
  { << Payable("pt", 2, << 1 >>) >>,
    << Payable("other", 5, << >>), Payable("pt", 3, << >>) >> }

RECURSIVE Sum(_)
Sum(q) == IF q = << >> THEN 0 ELSE Head(q) + Sum(Tail(q))

\* mutant: a rejected receipt is dropped without an error, as ReceiptService does
TikiScanDropped(S, t) == Finish([S EXCEPT !.tasks[t].warn = "flags"], t)

\* throw Error(`Scan failed ...`)
TikiScanFailed(S, t) == Reject(S, t, "ScanFailed")

\* !receipt.duplicate && !receipt.fraudulent && receipt.ocrConfidence >= 0.5
TikiAdmitted(receipt) ==
  ~receipt.duplicate /\ ~receipt.fraudulent /\ receipt.ocrConfidence >= TIKI_THRESHOLD

\* what the caller of license() goes on with once it has the license
afterLicense(S, t, license) ==
  IF S.tasks[t].op = "tiki.scan"
  THEN IF HasLicense(license)
       THEN [Log(S, t, PluginCall("capture.scan", NoAccount))
               EXCEPT !.tasks[t].pc = "tscan_capture"]
       ELSE Reject(S, t, "NoLicense")
  ELSE IF HasLicense(license)
       THEN [S EXCEPT !.tasks[t].pc = "rt_payables"]
       ELSE Finish(S, t)

\* license() from its call to its first await; this.id() throws before initialize
tikiLicense(S, t) ==
  IF S.tiki.license # "undefined" THEN [S EXCEPT !.tasks[t].pc = "lic_cached"]
  ELSE IF ~S.tiki.id THEN Reject(S, t, "NotInitialized")
  ELSE [S EXCEPT !.tasks[t].pc = "lic_title"]

\* adjustTotal(val)
adjustTotal(S, val) ==
  [S EXCEPT !.tiki.total = @ + val, !.threw = S.tiki.onTotalChanged = "throw"]

\* the for loop of retrieveTotal from payable i of the list on, up to the next await
RECURSIVE retrieveLoop(_, _, _)
retrieveLoop(S, t, i) ==
  IF i > S.tasks[t].snap THEN Finish([S EXCEPT !.tasks[t].idx = i], t)
  ELSE IF S.ledger[i].type = "pt"
  THEN [S EXCEPT !.tiki.total = @ + S.ledger[i].amount,
                 !.tasks[t].idx = i, !.tasks[t].pc = "rt_receipts"]
  ELSE retrieveLoop(S, t, i + 1)

\* retrieveTotal(), called by initialize and not awaited
retrieveTotal(S, parent) ==
  LET S1 == Spawn(S, NewTask("tiki.retrieveTotal", "start", NoAccount, parent))
  IN tikiLicense(S1, Len(S1.tasks))

\* the ledger as another session left it
ledgerHolds(content) ==
  /\ Started = 0 /\ ledger = << >>
  /\ Commit([Cur EXCEPT !.ledger = content])

\* onTotalChanged = listener
setOnTotalChanged(cb) ==
  /\ CanRegister
  /\ tiki.onTotalChanged = "undefined"
  /\ Commit([Cur EXCEPT !.tiki.onTotalChanged = cb, !.regs = @ + 1])

\* initialize(id), up to the await of licensing.initialize
tikiInitialize ==
  /\ CanStart
  /\ Commit(Spawn(Cur, NewTask("tiki.initialize", "init_licensing", NoAccount, 0)))

\* initialize, from the answer of licensing.initialize on
initLicensingResume(t, ok) ==
  /\ tasks[t].pc = "init_licensing"
  /\ IF ok
     THEN Commit([Cur EXCEPT !.tiki.id = TRUE, !.tasks[t].pc = "init_capture"])
     ELSE Commit(Reject(Cur, t, "plugin"))

\* initialize, from the answer of capture.initialize on
initCaptureResume(t, ok) ==
  /\ tasks[t].pc = "init_capture"
  /\ IF ok
     THEN Commit(Finish(retrieveTotal([Cur EXCEPT !.tiki.isInitialized = TRUE], t), t))
     ELSE Commit(Reject(Cur, t, "plugin"))

\* TikiService.scan(), up to its first await
tikiScan ==
  /\ CanStart
  /\ LET S1 == Spawn(Cur, NewTask("tiki.scan", "start", NoAccount, 0))
     IN Commit(tikiLicense(S1, Len(S1.tasks)))

\* license() returned the cached license
licenseCached(t) ==
  /\ tasks[t].pc = "lic_cached"
  /\ Commit(afterLicense(Cur, t, tiki.license))

\* license(), from the answer of licensing.getTitle on; the payables of the ledger are
\* payables of a license, so a ledger that holds some has the title and the license
titleResume(t, ok, title) ==
  /\ tasks[t].pc = "lic_title"
  /\ ok /\ ledger # << >> => title # "undefined"
  /\ IF ok
     THEN IF title # "undefined"
          THEN Commit([Cur EXCEPT !.tasks[t].pc = "lic_licenses"])
          ELSE Commit(afterLicense(Cur, t, "undefined"))
     ELSE /\ title = "undefined"
          /\ Commit(Reject(Cur, t, "plugin"))

\* license(), from the answer of licensing.getLicenses on: n licenses
licensesResume(t, ok, n) ==
  /\ tasks[t].pc = "lic_licenses"
  /\ ok /\ ledger # << >> => n > 0
  /\ IF ok
     THEN LET S1 == IF n > 0 THEN [Cur EXCEPT !.tiki.license = "license"] ELSE Cur
          IN Commit(afterLicense(S1, t, S1.tiki.license))
     ELSE /\ n = 0
          /\ Commit(Reject(Cur, t, "plugin"))

\* TikiService.scan, from the answer of capture.scan on
captureResume(t, ok, receipt) ==
  /\ tasks[t].pc = "tscan_capture"
  /\ ok => receipt # NoReceipt
  /\ IF ok
     THEN LET S1 == [Resumed(t, ok) EXCEPT !.tasks[t].rcpt = receipt]
          IN IF TikiAdmitted(receipt)
             THEN Commit([Log(S1, t, Ev("createPayable", "pt", 0, TIKI_AMOUNT,
                                        NoAccount, receipt))
                            EXCEPT !.tasks[t].pc = "tscan_payable"])
             ELSE Commit(TikiScanFailed(S1, t))
     ELSE /\ receipt = NoReceipt
          /\ Commit(Reject(Resumed(t, ok), t, "plugin"))

\* TikiService.scan, from the answer of licensing.createPayable on
tikiPayableResume(t, ok) ==
  /\ tasks[t].pc = "tscan_payable"
  /\ IF ok
     THEN LET S1 == [Resumed(t, ok) EXCEPT
                       !.ledger = Append(@, Payable("pt", TIKI_AMOUNT, << >>))]
              S2 == adjustTotal(S1, TIKI_AMOUNT)
          IN Commit(IF S2.threw THEN Reject(S2, t, "listener") ELSE Finish(S2, t))
     ELSE Commit(Reject(Resumed(t, ok), t, "payable"))

\* retrieveTotal, from the answer of licensing.getPayables on: the ledger as it is now
payablesResume(t, ok) ==
  /\ tasks[t].pc = "rt_payables"
  /\ IF ok
     THEN Commit(retrieveLoop([Cur EXCEPT !.tasks[t].snap = Len(ledger)], t, 1))
     ELSE Commit(Reject(Cur, t, "plugin"))

\* retrieveTotal, from the answer of licensing.getReceipts on
receiptsResume(t, ok) ==
  /\ tasks[t].pc = "rt_receipts"
  /\ IF ok
     THEN LET i == tasks[t].idx
          IN Commit(retrieveLoop([Cur EXCEPT !.tiki.total = @ - Sum(ledger[i].receipts)],
                                 t, i + 1))
     ELSE Commit(Reject(Cur, t, "plugin"))

\* TikiService
NextTiki ==
  \/ \E content \in LedgerContents : ledgerHolds(content)
  \/ \E cb \in Callbacks : setOnTotalChanged(cb)
  \/ tikiInitialize
  \/ \E t \in Tasks, ok \in BOOLEAN : initLicensingResume(t, ok)
  \/ \E t \in Tasks, ok \in BOOLEAN : initCaptureResume(t, ok)
  \/ tikiScan
  \/ \E t \in Tasks : licenseCached(t)
  \/ \E t \in Tasks, ok \in BOOLEAN, title \in {"undefined", "title"} :
       titleResume(t, ok, title)
  \/ \E t \in Tasks, ok \in BOOLEAN, n \in {0, 1} : licensesResume(t, ok, n)
  \/ \E t \in Tasks, ok \in BOOLEAN, receipt \in TikiReceipts \cup {NoReceipt} :
       captureResume(t, ok, receipt)
  \/ \E t \in Tasks, ok \in BOOLEAN : tikiPayableResume(t, ok)
  \/ \E t \in Tasks, ok \in BOOLEAN : payablesResume(t, ok)
  \/ \E t \in Tasks, ok \in BOOLEAN : receiptsResume(t, ok)

\* the operations on accounts
NextAccounts ==
  \/ \E id \in ListenerIds, cb \in Callbacks : onAccount(id, cb)
  \/ \E account \in CallerAccounts : login(account)
  \/ \E t \in Tasks, ok \in BOOLEAN : loginResume(t, ok)
  \/ \E account \in CallerAccounts \cup {NoAccount} : logout(account)
  \/ \E t \in Tasks, ok \in BOOLEAN : logoutAllResume(t, ok)
  \/ \E t \in Tasks, ok \in BOOLEAN : logoutResume(t, ok)
  \/ listAccounts
  \/ \E t \in Tasks, ok \in BOOLEAN, list \in SeqsUpTo(CaptureAccounts, MaxPersisted) :
       listAccountsResume(t, ok, list)
  \/ \E t \in Tasks, ok \in BOOLEAN : payableResume(t, ok)
  \/ \E t \in Tasks : processEnd(t)

\* the scans, and login: what a linked account and a scanned receipt pay
NextReceipts ==
  \/ \E id \in ListenerIds, cb \in Callbacks : onReceipt(id, cb)
  \/ login(ScanAccount)
  \/ \E t \in Tasks, ok \in BOOLEAN : loginResume(t, ok)
  \/ \E scanType \in {"PHYSICAL", "ONLINE", ""}, account \in {ScanAccount, NoAccount} :
       scanCall(scanType, account)
  \/ \E t \in Tasks, license \in {"undefined", "license"} : licenseResume(t, license)
  \/ \E t \in Tasks, ok \in BOOLEAN, receipt \in Receipts \cup {NoReceipt} :
       scanResume(t, ok, receipt)
  \/ \E t \in Tasks, ok \in BOOLEAN, receipt \in Receipts \cup {NoReceipt} :
       onlineResume(t, ok, receipt)
  \/ \E t \in Tasks, ok \in BOOLEAN : ingestResume(t, ok)
  \/ \E t \in Tasks, ok \in BOOLEAN : payableResume(t, ok)
  \/ \E t \in Tasks : processEnd(t)

\* what the host has called so far
Called(op) == \E t \in Tasks : tasks[t].parent = 0 /\ tasks[t].op = op

\* every way a receipt reaches addReceipt: the physical scan, the online scan, the
\* scrape callback; the host of a run either scans or links accounts for scraping
NextAdmission ==
  \/ \E cb \in Callbacks : onReceipt("l1", cb)
  \/ ~Called("scan") /\ login(ScanAccount)
  \/ \E t \in Tasks, ok \in BOOLEAN : loginResume(t, ok)
  \/ \E list \in ScrapeBatches : scrapeCallback(ScrapedAccount, list)
  \/ /\ ~Called("login")
     /\ \E scanType \in {"PHYSICAL", ""}, account \in {ScanAccount, NoAccount} :
          scanCall(scanType, account)
  \/ \E t \in Tasks, license \in {"undefined", "license"} : licenseResume(t, license)
  \/ \E t \in Tasks, ok \in BOOLEAN, receipt \in Receipts \cup {NoReceipt} :
       scanResume(t, ok, receipt)
  \/ \E t \in Tasks, ok \in BOOLEAN, receipt \in Receipts \cup {NoReceipt} :
       onlineResume(t, ok, receipt)
  \/ \E t \in Tasks, ok \in BOOLEAN : ingestResume(t, ok)
  \/ \E t \in Tasks, ok \in BOOLEAN : payableResume(t, ok)
  \/ \E t \in Tasks : processEnd(t)

\* every scan entry point of the repository: ReceiptService.scan of both revisions and
\* TikiService.scan, which needs initialize first
NextScans ==
  \/ \E scanType \in {"PHYSICAL", ""}, account \in {ScanAccount, NoAccount} :
       scanCall(scanType, account)
  \/ \E t \in Tasks, license \in {"undefined", "license"} : licenseResume(t, license)
  \/ \E t \in Tasks, ok \in BOOLEAN, receipt \in Receipts \cup {NoReceipt} :
       scanResume(t, ok, receipt)
  \/ \E t \in Tasks, ok \in BOOLEAN, receipt \in Receipts \cup {NoReceipt} :
       onlineResume(t, ok, receipt)
  \/ \E t \in Tasks, ok \in BOOLEAN : ingestResume(t, ok)
  \/ \E t \in Tasks, ok \in BOOLEAN : payableResume(t, ok)
  \/ \E t \in Tasks : processEnd(t)
  \/ ~Called("scan") /\ tikiInitialize
  \/ \E t \in Tasks, ok \in BOOLEAN : initLicensingResume(t, ok)
  \/ \E t \in Tasks, ok \in BOOLEAN : initCaptureResume(t, ok)
  \/ ~Called("scan") /\ tikiScan
  \/ \E t \in Tasks : licenseCached(t)
  \/ \E t \in Tasks, ok \in BOOLEAN, title \in {"undefined", "title"} :
       titleResume(t, ok, title)
  \/ \E t \in Tasks, ok \in BOOLEAN, n \in {0, 1} : licensesResume(t, ok, n)
  \/ \E t \in Tasks, ok \in BOOLEAN, receipt \in TikiReceipts \cup {NoReceipt} :
       captureResume(t, ok, receipt)
  \/ \E t \in Tasks, ok \in BOOLEAN : tikiPayableResume(t, ok)
  \/ \E t \in Tasks, ok \in BOOLEAN : payablesResume(t, ok)
  \/ \E t \in Tasks, ok \in BOOLEAN : receiptsResume(t, ok)

\* the listeners and every operation that calls them: the host registers its
\* listeners and then calls one operation
NextListeners ==
  \/ \E id \in ListenerIds, cb \in Callbacks : onAccount(id, cb)
  \/ \E id \in ListenerIds, cb \in Callbacks : onReceipt(id, cb)
  \/ Setup /\ login(ScanAccount)
  \/ \E t \in Tasks, ok \in BOOLEAN : loginResume(t, ok)
  \/ Setup /\ logout(ScanAccount)
  \/ \E t \in Tasks, ok \in BOOLEAN : logoutResume(t, ok)
  \/ Setup /\ listAccounts
  \/ \E t \in Tasks, ok \in BOOLEAN, list \in SeqsUpTo(CaptureAccounts, MaxPersisted) :
       listAccountsResume(t, ok, list)
  \/ /\ Setup
     /\ \E scanType \in {"PHYSICAL", ""}, account \in {ScanAccount, NoAccount} :
          scanCall(scanType, account)
  \/ \E t \in Tasks, license \in {"undefined", "license"} : licenseResume(t, license)
  \/ \E t \in Tasks, ok \in BOOLEAN, receipt \in Receipts \cup {NoReceipt} :
       scanResume(t, ok, receipt)
  \/ \E t \in Tasks, ok \in BOOLEAN, receipt \in Receipts \cup {NoReceipt} :
       onlineResume(t, ok, receipt)
  \/ \E t \in Tasks, ok \in BOOLEAN : ingestResume(t, ok)
  \/ \E t \in Tasks, ok \in BOOLEAN : payableResume(t, ok)
  \/ \E t \in Tasks : processEnd(t)

(* --------------------- the caller and the cache ----------------------- *)
\* get cachedAccounts() (revision 1: get accounts()): the caller gets _accounts itself
getCachedAccounts ==
  /\ ~refs.got
  /\ Commit([Cur EXCEPT !.refs = [refs EXCEPT !.got = TRUE, !.same = TRUE,
                                               !.val = accounts, !.vown = refs.own]])

\* the caller empties the array it got (value.length = 0)
callerEmptiesValue ==
  /\ refs.got /\ refs.val # << >>
  /\ Commit([Cur EXCEPT
               !.accounts = IF refs.same THEN << >> ELSE @,
               !.refs = [refs EXCEPT !.val = << >>, !.vown = << >>,
                                     !.own = IF refs.same THEN << >> ELSE @]])

\* what the caller sets the username of its account object to
EditedName == "edited"

\* the entries of list that are the object o, edited
Edited(list, own, o) ==
  [i \in 1..Len(list) |-> IF own[i] = o THEN [list[i] EXCEPT !.username = EditedName]
                          ELSE list[i]]

\* the caller changes the account object it passed to the login t, after that login
callerEditsAccount(t) ==
  /\ tasks[t].op = "login" /\ Settled(t)
  /\ tasks[t].acct.username # EditedName
  /\ Commit([Cur EXCEPT
               !.tasks[t].acct.username = EditedName,
               !.accounts = Edited(@, refs.own, t),
               !.refs = [refs EXCEPT !.val = Edited(@, refs.vown, t)]])

\* a caller that keeps what cachedAccounts gave it while it links and unlinks
NextAliasing ==
  \/ getCachedAccounts
  \/ callerEmptiesValue
  \/ \E t \in Tasks : callerEditsAccount(t)
  \/ \E account \in CallerAccounts : login(account)
  \/ \E t \in Tasks, ok \in BOOLEAN : loginResume(t, ok)
  \/ \E account \in CallerAccounts \cup {NoAccount} : logout(account)
  \/ \E t \in Tasks, ok \in BOOLEAN : logoutResume(t, ok)
  \/ \E t \in Tasks, ok \in BOOLEAN : logoutAllResume(t, ok)
  \/ \E t \in Tasks, ok \in BOOLEAN : payableResume(t, ok)
  \/ \E t \in Tasks : processEnd(t)

\* logins of distinct accounts under way at the same time
NextConcurrent ==
  \/ \E id \in ListenerIds, cb \in Callbacks : regs = 0 /\ onAccount(id, cb)
  \/ \E account \in LoginAccounts : loginConcurrently(account)
  \/ \E t \in Tasks, ok \in BOOLEAN : loginResume(t, ok)
  \/ \E t \in Tasks, ok \in BOOLEAN : payableResume(t, ok)
  \/ \E t \in Tasks : processEnd(t)

Next == NextAccounts \/ NextReceipts \/ NextAdmission \/ NextTiki \/ NextScans
          \/ NextListeners \/ NextConcurrent \/ NextAliasing

Spec == Init /\ [][Next]_vars
SpecAccounts == Init /\ [][NextAccounts]_vars
SpecReceipts == Init /\ [][NextReceipts]_vars
SpecAdmission == Init /\ [][NextAdmission]_vars
SpecTiki == Init /\ [][NextTiki]_vars
SpecScans == Init /\ [][NextScans]_vars
SpecListeners == Init /\ [][NextListeners]_vars
SpecConcurrent == Init /\ [][NextConcurrent]_vars
SpecAliasing == Init /\ [][NextAliasing]_vars

(* ----------------------------- properties ----------------------------- *)
\* the entries of a trace that are of one of the given kinds
Of(tr, kinds) == SelectSeq(tr, LAMBDA e : e.kind \in kinds)

Has(tr, kinds) == \E i \in 1..Len(tr) : tr[i].kind \in kinds

\* what issuing a reward leaves in a trace, and what admitting a receipt does
RewardKinds == {"process", "eval", "createPayable", "payable", "history"}
AdmissionKinds == RewardKinds \cup {"ingest", "onReceipt"}

Flagged(receipt) == receipt.duplicate \/ receipt.fraudulent

\* how many entries of the given kinds the traces of tasks 1..n hold
RECURSIVE CountUpTo(_, _)
CountUpTo(n, kinds) ==
  IF n = 0 THEN 0 ELSE Len(Of(trace[n], kinds)) + CountUpTo(n - 1, kinds)

\* every record of the history log was appended by a task, as its trace tells
HistoryAccounted == Len(history) = CountUpTo(Len(tasks), {"history"})

\* C1: a receipt that is duplicate or fraudulent, whichever way it reached addReceipt
\* (physical scan, online scan, scrape callback), has no reward rule evaluated, no
\* createPayable call, no history record and no receipt listener call.
C1_FlaggedReceiptNeverRewarded ==
  \A t \in Tasks :
    /\ HistoryAccounted
    /\ Flagged(tasks[t].rcpt) => ~Has(trace[t], AdmissionKinds)

\* C1 witness: a flagged receipt came in detached (online scan or scrape callback) and
\* was dropped while a receipt listener was registered
C1_Witness ==
  \E t \in Tasks :
    /\ tasks[t].op = "addReceipt"
    /\ Flagged(tasks[t].rcpt)
    /\ tasks[t].pc = "done"
    /\ Has(trace[t], {"addReceipt"})
    /\ onReceiptListeners # << >>

\* the run of the loop in task t went through every rule, every createPayable succeeded
LoopDone(t) ==
  /\ tasks[t].event # ""
  /\ tasks[t].pc \notin {"payable"}
  /\ tasks[t].err # "payable"

\* what one run of the loop on an event has to leave in the trace: every rule
\* evaluated once, in order, and a payable and a history record after each that pays
RECURSIVE ExpectedLoop(_, _)
ExpectedLoop(event, i) ==
  IF i > Len(rewards) THEN << >>
  ELSE (IF rewards[i][event] # Undefined
        THEN << <<"eval", i>>, <<"createPayable", i>>, <<"payable", i>>, <<"history", i>> >>
        ELSE << <<"eval", i>> >>) \o ExpectedLoop(event, i + 1)

LoopOf(t) ==
  LET tr == Of(trace[t], {"eval", "createPayable", "payable", "history"})
  IN [i \in 1..Len(tr) |-> << tr[i].kind, tr[i].rule >>]

Paying(event) == {i \in 1..Len(rewards) : rewards[i][event] # Undefined}

\* C2: in one run of the loop in which every createPayable succeeds, every rule is
\* evaluated exactly once, in configuration order, and the createPayable calls and the
\* history records are as many as the rules that returned an amount.
C2_LoopFansOut ==
  \A t \in Tasks :
    LoopDone(t) =>
      /\ LoopOf(t) = ExpectedLoop(tasks[t].event, 1)
      /\ Len(Of(trace[t], {"createPayable"})) = Cardinality(Paying(tasks[t].event))
      /\ Len(Of(trace[t], {"history"})) = Cardinality(Paying(tasks[t].event))

\* C2 witness: a finished run in which the first and the third rule paid and the second
\* did not
C2_Witness ==
  \E t \in Tasks :
    /\ LoopDone(t)
    /\ tasks[t].pc = "done"
    /\ rewards = RulesFan
    /\ tasks[t].event = "LINK"
    /\ Len(Of(trace[t], {"history"})) = 2

\* the payables task t had persisted, as << amount, name >>
PaidBy(t) ==
  LET tr == Of(trace[t], {"payable"}) IN [i \in 1..Len(tr) |-> << tr[i].amount, tr[i].name >>]

\* the history records task t appended, as << amount, event >>
RecordedBy(t) ==
  LET tr == Of(trace[t], {"history"}) IN [i \in 1..Len(tr) |-> << tr[i].amount, tr[i].name >>]

\* the runs of the loop task t started, by event
RunsOf(t) ==
  LET tr == Of(trace[t], {"process"}) IN [i \in 1..Len(tr) |-> tr[i].name]

\* the calls one call set off without awaiting them
Children(t) == {u \in Tasks : tasks[u].parent = t}

\* C3: a successful login runs the loop exactly once, with LINK; with the rules
\* [LINK -> 1, SCAN -> 2] it yields one payable of 1 and one history record, both tagged
\* LINK, and nothing tagged otherwise, and an admitted receipt after it yields one
\* payable of 2 tagged SCAN.
C3_LinkThenScan ==
  \A t \in Tasks :
    /\ HistoryAccounted
    /\ tasks[t].op = "login" /\ tasks[t].pc = "done" =>
         /\ RunsOf(t) = << "LINK" >>
         /\ \A u \in Children(t) : ~Has(trace[u], RewardKinds)
         /\ rewards = RulesAB =>
              /\ PaidBy(t) = << << 1, "LINK" >> >>
              /\ RecordedBy(t) = << << 1, "LINK" >> >>
    /\ tasks[t].op \in {"scan", "addReceipt"} /\ tasks[t].event # "" /\ Settled(t)
       /\ tasks[t].err \notin {"payable"} =>
         /\ RunsOf(t) = << "SCAN" >>
         /\ rewards = RulesAB =>
              /\ PaidBy(t) = << << 2, "SCAN" >> >>
              /\ RecordedBy(t) = << << 2, "SCAN" >> >>

\* C3 witness: revision 2 with the rules [LINK -> 1, SCAN -> 2]: a login went through,
\* then a physical scan whose receipt was admitted and paid
C3_Witness ==
  /\ rev = 2
  /\ rewards = RulesAB
  /\ \E t, u \in Tasks :
       /\ t < u
       /\ tasks[t].op = "login" /\ tasks[t].pc = "done"
       /\ tasks[u].op = "scan" /\ tasks[u].pc = "done" /\ tasks[u].event = "SCAN"
       /\ history = << HistoryEventNew(1, "LINK", "EMAIL"), HistoryEventNew(2, "SCAN", "") >>

\* C6: a physical scan that finds no license rejects with the consent-missing error;
\* it never calls the plugin's scan, ingests nothing, creates no payable and calls no
\* receipt listener.
C6_NoLicenseNoScan ==
  \A t \in Tasks :
    (\E i \in 1..Len(trace[t]) : trace[t][i] = Answer("undefined")) =>
      /\ tasks[t].pc = "rejected"
      /\ tasks[t].err = "NoLicense"
      /\ ~Has(trace[t], AdmissionKinds \cup {"plugin", "addReceipt"})
      /\ Children(t) = {}

\* C6 witness: a physical scan was refused for want of a license while a receipt
\* listener was registered
C6_Witness ==
  \E t \in Tasks :
    /\ tasks[t].op = "scan"
    /\ tasks[t].err = "NoLicense"
    /\ trace[t] = << Ev("getLicense", "", 0, 0, NoAccount, NoReceipt), Answer("undefined") >>
    /\ onReceiptListeners # << >>

\* the threshold of each revision, in hundredths
ThresholdOf(r) == IF r = 2 THEN 90 ELSE 80

\* C7: on the physical scan a receipt whose confidence does not exceed the threshold
\* is dropped: no rule evaluated, no payable, no receipt listener, and the scan
\* resolves without error.
C7_LowConfidenceDropped ==
  \A t \in Tasks :
    /\ tasks[t].op = "scan"
    /\ Has(trace[t], {"plugin"})
    /\ tasks[t].rcpt # NoReceipt
    /\ tasks[t].rcpt.ocrConfidence <= ThresholdOf(rev)
    => /\ tasks[t].pc = "done"
       /\ tasks[t].err = ""
       /\ ~Has(trace[t], AdmissionKinds \cup {"addReceipt"})
       /\ Children(t) = {}

\* C7 witness: a receipt with exactly the threshold's confidence, and no flag, was
\* dropped while rules for SCAN and a receipt listener were there
C7_Witness ==
  \E t \in Tasks :
    /\ tasks[t].op = "scan"
    /\ tasks[t].rcpt.ocrConfidence = ThresholdOf(rev)
    /\ ~Flagged(tasks[t].rcpt)
    /\ tasks[t].pc = "done"
    /\ tasks[t].warn = "confidence"
    /\ onReceiptListeners # << >>

SameIdentity(a, b) == a.username = b.username /\ a.type = b.type

\* task t takes up again in this step and gets as far as filtering the cache
Removes(t) == tasks[t].pc = "logout_plugin" /\ Has(trace'[t], {"filter"})

\* C4 (as claimed): logout(account) takes out of the cache exactly the entries with the
\* account's username and provider-type, every other entry stays; then UNLINK goes
\* through the loop.
C4_LogoutRemovesExactlyMatching ==
  [][\A t \in Tasks :
       Removes(t) =>
         /\ accounts' = SelectSeq(accounts, LAMBDA acc : ~SameIdentity(acc, tasks[t].acct))
         /\ tasks'[t].pc # "rejected" => RunsOf(t)' = << "UNLINK" >>]_vars

\* C5: logout() whose plugin logout succeeds empties the cache, has made the one
\* plugin call and nothing else: no rule, no payable, no history record, no listener.
C5_LogoutAllOnlyClears ==
  [][\A t \in Tasks :
       tasks[t].pc = "logoutAll_plugin" /\ tasks'[t].pc = "done" =>
         /\ accounts' = << >>
         /\ history' = history
         /\ trace'[t] = << PluginCall("logoutAll", NoAccount), Answer("ok") >>
         /\ Len(tasks') = Len(tasks)
         /\ \A u \in Tasks \ {t} : trace'[u] = trace[u] /\ tasks'[u] = tasks[u]]_vars

\* C5 witness: logout() went through after an account had been cached
C5_Witness ==
  \E t \in Tasks :
    /\ tasks[t].op = "logout" /\ tasks[t].acct = NoAccount /\ tasks[t].pc = "done"
    /\ \E u \in 1..(t - 1) : Has(trace[u], {"push"})
    /\ accounts = << >>

\* the online scans of the plugin that the calls set off by task t made
OnlineScans(t) ==
  Cardinality({u \in Children(t) :
                 \E i \in 1..Len(trace[u]) :
                   trace[u][i].kind = "plugin" /\ trace[u][i].name = "scan:ONLINE"})

\* how often task t called the account listener registered under id
NotifiedBy(t, id) ==
  Len(SelectSeq(trace[t], LAMBDA e : e.kind = "onAccount" /\ e.name = id))

\* C8 (as claimed): accounts() on an empty cache, the plugin returning n accounts:
\* the cache ends with n entries, every account listener is called n times and n online
\* scans of the plugin are set off.
C8_AccountsScansEach ==
  [][\A t \in Tasks :
       rev = 2 /\ tasks[t].pc = "accounts_plugin" /\ tasks'[t].pc = "done"
       /\ accounts = << >> =>
         LET n == Len(Of(trace'[t], {"push"}))
         IN /\ Len(accounts') = n
            /\ \A i \in 1..Len(onAccountListeners) :
                 NotifiedBy(t, onAccountListeners[i].id)' = n
            /\ OnlineScans(t)' = n]_vars

\* the plugin call task t awaited is answered with a rejection in this step
Rejects(t) ==
  /\ tasks[t].pc \in {"login_plugin", "logout_plugin", "logoutAll_plugin", "accounts_plugin"}
  /\ Len(trace'[t]) > Len(trace[t])
  /\ trace'[t][Len(trace[t]) + 1] = Answer("reject")

\* C9: when the plugin call of login, logout or accounts rejects, the operation
\* rejects and nothing changes: same cache, no listener called, no rule evaluated, no
\* payable, no history record, and the account of a login is not marked verified.
C9_RejectionChangesNothing ==
  [][\A t \in Tasks :
       Rejects(t) =>
         /\ tasks'[t].pc = "rejected"
         /\ accounts' = accounts
         /\ history' = history
         /\ trace'[t] = Append(trace[t], Answer("reject"))
         /\ tasks'[t].acct = tasks[t].acct
         /\ tasks[t].op = "login" => ~tasks'[t].acct.isVerified
         /\ Len(tasks') = Len(tasks)
         /\ \A u \in Tasks \ {t} : trace'[u] = trace[u] /\ tasks'[u] = tasks[u]
         /\ UNCHANGED << onAccountListeners, onReceiptListeners, scrapeSubs >>]_vars

\* C9 witness: a plugin call was rejected while an account was cached
C9_Witness ==
  \E t \in Tasks :
    /\ tasks[t].pc = "rejected"
    /\ trace[t][Len(trace[t])] = Answer("reject")
    /\ accounts # << >>

\* C10 (as claimed): no two entries of the cache have the same username and
\* provider-type.
C10_NoDuplicateAccounts ==
  \A i, j \in 1..Len(accounts) : i # j => ~SameIdentity(accounts[i], accounts[j])

\* the accounts task t has appended to the cache, in order
Pushed(t) == LET tr == Of(trace[t], {"push"}) IN [i \in 1..Len(tr) |-> tr[i].account]

\* C10 (amended): the cache is de-duplicated on removal only: right after
\* logout(account) has filtered, no entry has the account's username and
\* provider-type; login and accounts() append their accounts whatever the cache holds.
C10_DuplicatesGoOnRemovalOnly ==
  [][\A t \in Tasks :
       /\ Removes(t) =>
            \A i \in 1..Len(accounts') : ~SameIdentity(accounts'[i], tasks[t].acct)
       /\ tasks[t].pc \in {"login_plugin", "accounts_plugin"} =>
            accounts' = accounts \o Pushed(t)']_vars

\* C10 witness: an account was cached by login and then taken out by logout(account)
C10_Witness ==
  \E t, u \in Tasks :
    /\ t < u
    /\ tasks[t].op = "login" /\ Has(trace[t], {"push"})
    /\ tasks[u].op = "logout" /\ Has(trace[u], {"filter"})
    /\ SameIdentity(tasks[t].acct, tasks[u].acct)
    /\ accounts = << >>

(* ------------------------- rejected receipts -------------------------- *)
\* the physical scan of ReceiptService: the one that asks for the license
Physical(t) == tasks[t].op = "scan" /\ Has(trace[t], {"getLicense"})

\* the addReceipt an online scan of ReceiptService left behind
OnlineAdmission(t) ==
  /\ tasks[t].op = "addReceipt" /\ tasks[t].parent # 0
  /\ tasks[tasks[t].parent].op = "scan"

\* task t got a receipt that its entry point rejects: flagged, or of too low confidence
\* where the entry point looks at the confidence
GotRejected(t) ==
  LET r == tasks[t].rcpt
  IN /\ r # NoReceipt
     /\ \/ Physical(t) /\ (Flagged(r) \/ r.ocrConfidence <= ThresholdOf(rev))
        \/ OnlineAdmission(t) /\ Flagged(r)
        \/ tasks[t].op = "tiki.scan" /\ (Flagged(r) \/ r.ocrConfidence < 50)

\* the scan call task t belongs to
ScanCallOf(t) == IF OnlineAdmission(t) THEN tasks[t].parent ELSE t

\* C11 (as claimed): on every scan entry point a rejected receipt makes the scan call
\* resolve normally, the receipt dropped and no payable created.
C11_RejectionIsNeverAnError ==
  \A t \in Tasks :
    GotRejected(t) =>
      /\ tasks[ScanCallOf(t)].pc = "done"
      /\ ~Has(trace[t], RewardKinds)

\* C11 (amended): ReceiptService.scan of both revisions resolves normally on a rejected
\* receipt, dropped without a payable; TikiService.scan rejects with its 'Scan failed'
\* error, and creates no payable either.
C11_RejectionIsAnErrorInTikiServiceOnly ==
  \A t \in Tasks :
    GotRejected(t) =>
      /\ ~Has(trace[t], RewardKinds)
      /\ IF tasks[t].op = "tiki.scan"
         THEN tasks[t].pc = "rejected" /\ tasks[t].err = "ScanFailed"
         ELSE tasks[t].pc = "done" /\ tasks[t].err = "" /\ tasks[ScanCallOf(t)].pc = "done"

\* C11 witness: TikiService.scan got a receipt of confidence 0.4 without a flag
C11_Witness ==
  \E t \in Tasks :
    /\ tasks[t].op = "tiki.scan" /\ tasks[t].rcpt.id = "r40"
    /\ tasks[t].pc = "rejected"

(* ------------------------------ listeners ----------------------------- *)
Ids(m) == [i \in 1..Len(m) |-> m[i].id]

\* the ids of the account listeners task t called, in the order of the calls
AccountCalls(t) ==
  LET tr == Of(trace[t], {"onAccount"}) IN [i \in 1..Len(tr) |-> tr[i].name]

\* the ids of the receipt listeners task t called, in the order of the calls
ReceiptCalls(t) ==
  LET tr == Of(trace[t], {"onReceipt"}) IN [i \in 1..Len(tr) |-> tr[i].name]

\* C12 (as claimed): the listeners are notified of an event only after every payable
\* and every history record of the event: no task creates a payable or appends a
\* history record after it has called a listener.
C12_ListenersNotifiedLast ==
  \A t \in Tasks : \A i, j \in 1..Len(trace[t]) :
    i < j /\ trace[t][i].kind \in {"onAccount", "onReceipt"}
    => trace[t][j].kind \notin {"createPayable", "payable", "history"}

\* C12 (amended): the receipt listeners are called after the loop of the admitted
\* receipt is through, every payable and history record written; the account listeners
\* of a login or logout are called before the loop starts, when nothing of the event
\* has been paid or recorded, and not again.
C12_ReceiptListenersLastAccountListenersFirst ==
  [][\A t \in Tasks :
       /\ ReceiptCalls(t)' # ReceiptCalls(t) =>
            /\ tasks[t].pc = "proc_end"
            /\ LoopOf(t) = ExpectedLoop("SCAN", 1)
            /\ LoopOf(t)' = LoopOf(t)
            /\ history' = history
       /\ (tasks[t].pc \in {"login_plugin", "logout_plugin"}
           /\ Has(trace'[t], {"process"})) =>
            /\ AccountCalls(t)' = Ids(onAccountListeners)
            /\ ~Has(trace'[t], {"payable", "history"})
            /\ history' = history
       /\ (tasks[t].op \in {"login", "logout"} /\ Has(trace[t], {"process"})) =>
            AccountCalls(t)' = AccountCalls(t)]_vars

\* C12 witness: a login called an account listener and its payable and history record
\* came after
C12_Witness ==
  \E t \in Tasks :
    /\ tasks[t].op = "login" /\ tasks[t].pc = "done"
    /\ AccountCalls(t) # << >>
    /\ Has(trace[t], {"history"})

\* m2 is m after one set(id, cb)
IsSet(m, m2, id, cb) ==
  /\ \A i, j \in 1..Len(m2) : m2[i].id = m2[j].id => i = j
  /\ Ids(m2) = IF \E i \in 1..Len(m) : m[i].id = id THEN Ids(m) ELSE Append(Ids(m), id)
  /\ \A i \in 1..Len(m2) : m2[i].cb = IF m2[i].id = id THEN cb ELSE m[i].cb

RECURSIVE Repeat(_, _)
Repeat(q, n) == IF n = 0 THEN << >> ELSE q \o Repeat(q, n - 1)

\* what n deliveries to the listeners m have to call: every id once each time, in the
\* order of m, when none of the callbacks throws
Delivered(calls, m, n) == (\A i \in 1..Len(m) : m[i].cb = "ok") => calls = Repeat(Ids(m), n)

\* C13: listeners are kept by id in the order in which the ids were first registered,
\* each id with the callback registered last under it; every delivery in which no
\* callback throws calls each id exactly once, in that order, within the step that
\* fires the event.
C13_OnePerIdInRegistrationOrder ==
  [][/\ regs' # regs =>
          \/ UNCHANGED onReceiptListeners /\ \E id \in ListenerIds, cb \in Callbacks :
               IsSet(onAccountListeners, onAccountListeners', id, cb)
          \/ UNCHANGED onAccountListeners /\ \E id \in ListenerIds, cb \in Callbacks :
               IsSet(onReceiptListeners, onReceiptListeners', id, cb)
     /\ \A t \in Tasks :
          /\ (~Has(trace[t], {"push", "filter"}) /\ Has(trace'[t], {"push", "filter"})) =>
               Delivered(AccountCalls(t)', onAccountListeners,
                         Len(Of(trace'[t], {"push", "filter"})))
          /\ trace'[t] = trace[t] => AccountCalls(t)' = AccountCalls(t)
          /\ (tasks[t].pc = "proc_end" /\ tasks[t].event = "SCAN"
                /\ tasks'[t].pc # "proc_end") =>
               /\ ReceiptCalls(t) = << >>
               /\ Delivered(ReceiptCalls(t)', onReceiptListeners, 1)]_vars

\* C13 witness: three registrations left two account listeners, and a login called
\* both, in the order of their first registration
C13_Witness ==
  \E t \in Tasks :
    /\ regs = 3 /\ onReceiptListeners = << >>
    /\ Ids(onAccountListeners) = << "l2", "l1" >>
    /\ tasks[t].op = "login" /\ tasks[t].pc = "done"
    /\ AccountCalls(t) = << "l2", "l1" >>

\* the public operation that set task t off, 0 if the capture plugin did
CallerOf(t) == IF tasks[t].op = "addReceipt" THEN tasks[t].parent ELSE t

\* a listener threw while task t delivered an event
ListenerThrew(t) ==
  /\ tasks[t].err \in {"listener", "load"}
  /\ Has(trace[t], {"onAccount", "onReceipt"})
  /\ trace[t][Len(trace[t])].kind \in {"onAccount", "onReceipt"}

\* C14 (as claimed): when a listener throws, no listener registered after it is called
\* for the event, and the public operation that fired the event rejects.
C14_ThrowingListenerRejectsOperation ==
  \A t \in Tasks :
    ListenerThrew(t) =>
      /\ tasks[t].pc = "rejected"
      /\ CallerOf(t) # 0 => tasks[CallerOf(t)].pc = "rejected"

(* ----------------------- createPayable rejects ------------------------ *)
\* C17: a history record is appended only after the createPayable of its rule has
\* succeeded: there are never more records than successful createPayable calls; a
\* record is appended only by the task whose createPayable has just succeeded, one for
\* the rule it awaited; and when createPayable rejects, the call rejects, no record is
\* appended, no later rule is evaluated and what earlier rules left stays.
C17_HistoryOnlyAfterPayable ==
  [][/\ Len(history') <= CountUpTo(Len(tasks), {"payable"})'
     /\ history' # history =>
          \E t \in Tasks :
            /\ tasks[t].pc = "payable" /\ tasks'[t].pc # "rejected"
            /\ Len(history') = Len(history) + 1
            /\ SubSeq(history', 1, Len(history)) = history
            /\ history'[Len(history')].amount = rewards[tasks[t].idx][tasks[t].event]
            /\ history'[Len(history')].event = tasks[t].event
     /\ \A t \in Tasks :
          (/\ tasks[t].pc = "payable"
           /\ Len(trace'[t]) > Len(trace[t])
           /\ trace'[t][Len(trace[t]) + 1] = Answer("reject")) =>
            /\ tasks'[t].pc = "rejected"
            /\ history' = history
            /\ trace'[t] = Append(trace[t], Answer("reject"))
            /\ tasks'[t].err = "payable"
            /\ tasks'[t].idx = tasks[t].idx]_vars

\* C17 witness: createPayable rejected for a rule after an earlier rule had paid and
\* with a later rule that pays for the event
C17_Witness ==
  \E t \in Tasks :
    /\ tasks[t].pc = "rejected" /\ tasks[t].err = "payable"
    /\ Has(trace[t], {"history"})
    /\ history # << >>
    /\ \E i \in Paying(tasks[t].event) : i > tasks[t].idx

(* ------------------------ when a scan resolves ------------------------ *)
\* the last n entries of a sequence
LastOf(q, n) == SubSeq(q, Len(q) - n + 1, Len(q))

\* C18: a physical scan with an admitted receipt resolves only when the receipt is
\* ingested, every firing rule has its payable and its history record and the receipt
\* listeners are called, these last; an online scan (scanType undefined) resolves in
\* the step in which the plugin returns the receipt, leaving the admission to a call
\* nobody awaits, and stays resolved whatever becomes of that admission.
C18_PhysicalAwaitsOnlineDoesNot ==
  [][\A t \in Tasks :
       /\ (Physical(t) /\ tasks[t].pc # "done" /\ tasks'[t].pc = "done"
           /\ tasks'[t].warn = "") =>
            /\ rev = 2 => Has(trace'[t], {"ingest"})
            /\ LoopOf(t)' = ExpectedLoop("SCAN", 1)
            /\ ReceiptCalls(t)' =
                 [i \in 1..Len(onReceiptListeners) |-> onReceiptListeners[i].id]
            /\ \A i \in 1..Len(onReceiptListeners) :
                 LastOf(trace'[t], Len(onReceiptListeners))[i].kind = "onReceipt"
            /\ Children(t)' = {}
       /\ (tasks[t].pc = "online_plugin" /\ Len(trace'[t]) > Len(trace[t])
           /\ trace'[t][Len(trace[t]) + 1] = Answer("ok")) =>
            /\ tasks'[t].pc = "done"
            /\ ~Has(trace'[t], AdmissionKinds)
            /\ Len(tasks') = Len(tasks) + 1
            /\ tasks'[Len(tasks')].op = "addReceipt" /\ tasks'[Len(tasks')].parent = t
       /\ (tasks[t].op = "scan" /\ tasks[t].pc = "done") =>
            tasks'[t].pc = "done" /\ tasks'[t].err = ""]_vars

\* C18 witness: an online scan has resolved and the admission it left behind failed,
\* and a physical scan has resolved with a payable
C18_Witness ==
  \E t, u, v \in Tasks :
    /\ tasks[t].op = "scan" /\ tasks[t].pc = "done" /\ tasks[u].parent = t
    /\ tasks[u].op = "addReceipt" /\ tasks[u].pc = "rejected"
    /\ Physical(v) /\ tasks[v].pc = "done" /\ Has(trace[v], {"history"})

(* ------------------------- what cachedAccounts gives ------------------ *)
\* C15: cachedAccounts gives a read-only snapshot: what the caller got from it does not
\* change in a step of the service (an account added or removed), and a step of the
\* caller (changing what it got, or the account object it passed to login) does not
\* change the cache.
C15_CachedAccountsIsASnapshot ==
  [][/\ refs.got /\ trace' # trace => refs'.val = refs.val
     /\ trace' = trace => accounts' = accounts]_vars

(* -------------------------- concurrent logins ------------------------- *)
\* the logins whose plugin login succeeded
LoggedIn == {t \in Tasks : tasks[t].op = "login" /\ Has(trace[t], {"push"})}

\* C20: with logins of distinct accounts under way at the same time no cache update is
\* lost: the cache holds the account of every login whose plugin login succeeded, once
\* each and nothing else; a login pushes its account and notifies the account listeners
\* in one step in which no other call does anything; and it starts exactly one run of
\* the loop, with LINK (none when one of its listeners threw: the login then rejects).
C20_NoLostUpdate ==
  [][/\ Len(accounts') = Cardinality(LoggedIn')
     /\ \A t \in LoggedIn' :
          /\ Cardinality({i \in 1..Len(accounts') : accounts'[i] = tasks'[t].acct}) = 1
          /\ RunsOf(t)' = IF tasks'[t].err = "listener" THEN << >> ELSE << "LINK" >>
     /\ \A t \in LoggedIn' \ LoggedIn :
          /\ accounts' = Append(accounts, tasks'[t].acct)
          /\ Delivered(AccountCalls(t)', onAccountListeners, 1)
          /\ \A u \in Tasks \ {t} : tasks'[u] = tasks[u] /\ trace'[u] = trace[u]]_vars

\* C20 witness: two logins were under way at the same time, the one called first got
\* its answer last, and both are through and cached
C20_Witness ==
  \E t, u \in LoggedIn :
    /\ t < u
    /\ tasks[t].pc = "done" /\ tasks[u].pc = "done"
    /\ accounts = << tasks[u].acct, tasks[t].acct >>
    /\ onAccountListeners # << >>

(* ------------------------------ TikiService: total -------------------- *)
TikiOps == {"tiki.initialize", "tiki.scan", "tiki.retrieveTotal"}

\* what the ledger holds: the payables of type 'pt' less their receipts
LedgerTotal ==
  Sum([i \in 1..Len(ledger) |->
         IF ledger[i].type = "pt" THEN ledger[i].amount - Sum(ledger[i].receipts) ELSE 0])

\* initialize was called once; the retrieval it started is through, and so is every scan
TotalSettled ==
  /\ Cardinality({t \in Tasks : tasks[t].op = "tiki.initialize"}) = 1
  /\ \E t \in Tasks : tasks[t].op = "tiki.retrieveTotal"
  /\ \A t \in Tasks :
       /\ tasks[t].op = "tiki.retrieveTotal" => tasks[t].pc = "done"
       /\ tasks[t].op = "tiki.scan" => Settled(t)

\* C19 (as claimed): once the retrieval started by initialize and every scan are
\* through, total is what the ledger holds, each payable counted once.
C19_TotalIsLedgerTotal == TotalSettled => tiki.total = LedgerTotal

====
